---- MODULE Spec2Model ----
(***************************************************************************)
(* Rejection strategies of src/src/reject_methods.h (namespace Numina):    *)
(* RejectNone, RejectMinMax, RejectSigmaClip and the CTW adaptor.          *)
(*                                                                         *)
(* A combine call works on the caller's value and weight arrays through a  *)
(* zip iterator, so the two arrays are one sequence of (v, w) records.     *)
(* Positions are 1-based here; an iterator is its offset from begin.       *)
(*                                                                         *)
(* Doubles are modelled by exact arithmetic.  An estimate is a record      *)
(* [cn, vn, d] meaning center = cn/d and variance = vn/(d*d); d = 0 is the *)
(* not-a-number result of an empty range (every comparison with it is      *)
(* false).  sqrt is never evaluated: a comparison with mean +- k*sigma is  *)
(* decided on signed squares, which is exact.                              *)
(***************************************************************************)
EXTENDS Integers, Sequences, FiniteSets, Bags, TLC

\* ---------------------------------------------------------------- bounds
MaxLen == 3
MaxValue == 2
MaxWeight == 2
MaxReject == 2
MaxPasses == 5
MaxAdaptors == 3
MaxAllocs == 4

Values == 0..MaxValue
Weights == 1..MaxWeight
Samples == [v : Values, w : Weights]
LowSigmas == {-1, 1, 2}
HighSigmas == {1, 2}
Estimators == {"mean", "wmean"}
Methods == {"none", "minmax", "sigmaclip"}

Null == 0
NoAdaptor == -1

VARIABLES
  method,      \* which rejection strategy the call is made on
  central,     \* m_central: the estimator the strategy was built with
  m_nmin, m_nmax,   \* RejectMinMax configuration
  m_low, m_high,    \* RejectSigmaClip configuration
  S0,          \* the caller's arrays when combine was called
  samples,     \* the caller's arrays now
  pc,          \* "idle" | "loop" | "done"
  ned,         \* RejectSigmaClip: ned - beg
  c_size,      \* RejectSigmaClip: c_size
  delta,       \* RejectSigmaClip: delta
  c_est,       \* RejectSigmaClip: the estimate c_mean and c_std come from
  result,      \* RejectMinMax: the iterator pair returned by reject_min_max
  results,     \* the three output slots, <<>> until written
  passes,      \* number of loop passes made so far (saturates at MaxPasses)
  estArg,      \* the range handed to the estimator by the last call of it
  keptBefore,  \* the range [beg, ned) at the start of the last pass
  m_cm,        \* CTW: adaptor -> owned estimator instance, Null or NoAdaptor
  heap,        \* CTW: live estimator instances -> their dynamic type
  allocs,      \* CTW: number of instances allocated so far
  copyOf,      \* CTW: adaptor -> the adaptor it was copy-constructed from
  fault        \* CTW: a null m_cm was dereferenced

vars == <<method, central, m_nmin, m_nmax, m_low, m_high, S0, samples, pc,
          ned, c_size, delta, c_est, result, results, passes, estArg,
          keptBefore, m_cm, heap, allocs, copyOf, fault>>

combineVars == <<method, central, m_nmin, m_nmax, m_low, m_high, S0, samples,
                 pc, ned, c_size, delta, c_est, result, results, passes,
                 estArg, keptBefore>>

ctwVars == <<m_cm, heap, allocs, copyOf, fault>>

\* --------------------------------------------------------------- helpers
Min(a, b) == IF a < b THEN a ELSE b

Max(a, b) == IF a > b THEN a ELSE b

Abs(z) == IF z < 0 THEN -z ELSE z

\* z*|z|: strictly increasing, so x < y  <=>  SignedSquare(x) < SignedSquare(y)
SignedSquare(z) == z * Abs(z)

SeqsUpTo(n) == UNION {[1..k -> Samples] : k \in 0..n}

Range(s) == {s[i] : i \in DOMAIN s}

SeqBag(s) == [x \in Range(s) |-> Cardinality({i \in DOMAIN s : s[i] = x})]

ValuesOf(s) == [i \in DOMAIN s |-> s[i].v]

\* Variant: the second store of the exchange is lost.
Swap_Overwrite(s, i, j) == [s EXCEPT ![i] = s[j]]

Swap(s, i, j) == [s EXCEPT ![i] = s[j], ![j] = s[i]]

\* ------------------------------------------------------------- estimator
RECURSIVE SumW(_, _)
SumW(kind, s) ==
  IF s = <<>> THEN 0
  ELSE (IF kind = "wmean" THEN Head(s).w ELSE 1) + SumW(kind, Tail(s))

RECURSIVE SumWV(_, _)
SumWV(kind, s) ==
  IF s = <<>> THEN 0
  ELSE (IF kind = "wmean" THEN Head(s).w ELSE 1) * Head(s).v
       + SumWV(kind, Tail(s))

RECURSIVE SumWV2(_, _)
SumWV2(kind, s) ==
  IF s = <<>> THEN 0
  ELSE (IF kind = "wmean" THEN Head(s).w ELSE 1) * Head(s).v * Head(s).v
       + SumWV2(kind, Tail(s))

\* m_central(first, last, weights): (weighted) mean and population variance
Estimate(kind, s) ==
  [cn |-> SumWV(kind, s),
   vn |-> SumW(kind, s) * SumWV2(kind, s) - SumWV(kind, s) * SumWV(kind, s),
   d  |-> SumW(kind, s)]

Center(r) == <<r.cn, r.d>>

Variance(r) == <<r.vn, r.d * r.d>>

\* sqrt(r.second), kept symbolic
Sqrt(q) == <<"sqrt", q>>

\* ---------------------------------------------------------- RejectNone
\* Variant: the distance is taken to the last element, not past it.
NoneCount_OffByOne(s) == Len(s) - 1

\* std::distance(begin, end)
NoneCount(s) == Len(s)

NoneCombine(s) ==
  /\ pc = "idle"
  /\ method = "none"
  /\ S0' = s
  /\ samples' = s
  /\ LET r == Estimate(central, s)
     IN results' = <<Center(r), Variance(r), NoneCount(s)>>
  /\ estArg' = s
  /\ pc' = "done"
  /\ UNCHANGED <<method, central, m_nmin, m_nmax, m_low, m_high,
                 ned, c_size, delta, c_est, result, passes, keptBefore>>
  /\ UNCHANGED ctwVars

\* -------------------------------------------------------- RejectMinMax
\* reject_min_max (operations.h): the pairs are rearranged by value so
\* that the nmin smallest come first and the nmax largest last; the
\* returned pair of iterators delimits what is left between the two
\* tails, empty once the tails exhaust the set.  The order inside a tail
\* and among equal values is left open.
reject_min_max(s, nmin, nmax) ==
  LET n  == Len(s)
      lo == Min(nmin, n)
      hi == Max(lo, n - nmax)
  IN {[seq |-> t, first |-> lo, second |-> hi] :
        t \in {[i \in 1..n |-> s[p[i]]] : p \in Permutations(1..n)} \cap
              {u \in [1..n -> Range(s)] :
                 /\ \A i \in 1..lo : \A j \in (lo + 1)..n : u[i].v <= u[j].v
                 /\ \A i \in 1..hi : \A j \in (hi + 1)..n : u[i].v <= u[j].v}}

\* Variant: the difference is taken as if the range were closed.
MinMaxCount_Inclusive(res) == res.second - res.first + 1

\* result.second - result.first
MinMaxCount(res) == res.second - res.first

\* Variant: the estimator is started at begin instead of result.first.
MinMaxRange_FromBegin(s, res) == SubSeq(s, 1, res.second)

\* the range [beg.first, ned.first) with the weights from beg.second
MinMaxRange(s, res) == SubSeq(s, res.first + 1, res.second)

MinMaxCombine(s) ==
  /\ pc = "idle"
  /\ method = "minmax"
  /\ S0' = s
  /\ \E out \in reject_min_max(s, m_nmin, m_nmax) :
       LET res == [first |-> out.first, second |-> out.second]
           r   == Estimate(central, MinMaxRange(out.seq, res))
       IN /\ samples' = out.seq
          /\ result' = res
          /\ estArg' = MinMaxRange(out.seq, res)
          /\ results' = <<Center(r), Variance(r), MinMaxCount(res)>>
  /\ pc' = "done"
  /\ UNCHANGED <<method, central, m_nmin, m_nmax, m_low, m_high,
                 ned, c_size, delta, c_est, passes, keptBefore>>
  /\ UNCHANGED ctwVars

\* ----------------------------------------------------- RejectSigmaClip
\* bind2nd(less<double>(), c_mean - c_std * m_low) on the value:
\*   x < c_mean - c_std * m_low
BelowLow(x, r, low) ==
  SignedSquare(r.d * x.v - r.cn) < SignedSquare(-low) * r.vn

\* bind1st(greater<double>(), c_mean + c_std * m_high) on the value:
\*   c_mean + c_std * m_high > x
BelowHigh(x, r, high) ==
  SignedSquare(r.d * x.v - r.cn) < SignedSquare(high) * r.vn

\* compose2(logical_and, ..., ...): the predicate handed to partition
InsideRange(x, r, low, high) == BelowLow(x, r, low) /\ BelowHigh(x, r, high)

\* std::partition of libstdc++ for bidirectional iterators on [first, last)
RECURSIVE partition(_, _, _, _, _, _)
partition(s, first, last, r, low, high) ==
  LET stay == {i \in first..(last - 1) : ~InsideRange(s[i], r, low, high)}
  IN IF stay = {} THEN [seq |-> s, mid |-> last]
     ELSE LET f    == CHOOSE i \in stay : \A k \in stay : i <= k
              move == {j \in (f + 1)..(last - 1) :
                         InsideRange(s[j], r, low, high)}
          IN IF move = {} THEN [seq |-> s, mid |-> f]
             ELSE LET l == CHOOSE j \in move : \A k \in move : k <= j
                  IN partition(Swap(s, f, l), f + 1, l, r, low, high)

SigmaClipEnter(s) ==
  /\ pc = "idle"
  /\ method = "sigmaclip"
  /\ S0' = s
  /\ samples' = s
  /\ ned' = Len(s)
  /\ delta' = 0
  /\ c_est' = [cn |-> 0, vn |-> 0, d |-> 1]
  /\ c_size' = Len(s)
  /\ pc' = "loop"
  /\ UNCHANGED <<method, central, m_nmin, m_nmax, m_low, m_high,
                 result, results, passes, estArg, keptBefore>>
  /\ UNCHANGED ctwVars

\* c_size = end - begin, whatever the pass kept
NextSize(s, kept) == Len(s)

\* Variant: the count written is one short of c_size.
SigmaClipCount_OffByOne(size) == size - 1

\* *results[2] = c_size
SigmaClipCount(size) == size

SigmaClipPass ==
  /\ pc = "loop"
  /\ LET r    == Estimate(central, SubSeq(samples, 1, c_size))
         part == partition(samples, 1, ned + 1, r, m_low, m_high)
         kept == part.mid - 1
         dlt  == c_size - kept
         size == NextSize(samples, kept)
     IN /\ c_est' = r
        /\ samples' = part.seq
        /\ ned' = kept
        /\ delta' = dlt
        /\ c_size' = size
        /\ estArg' = SubSeq(samples, 1, c_size)
        /\ keptBefore' = SubSeq(samples, 1, ned)
        /\ IF dlt # 0
           THEN pc' = "loop" /\ UNCHANGED results
           ELSE /\ pc' = "done"
                /\ results' = <<Center(r), Sqrt(Variance(r)),
                                SigmaClipCount(size)>>
  /\ passes' = IF passes < MaxPasses THEN passes + 1 ELSE passes
  /\ UNCHANGED <<method, central, m_nmin, m_nmax, m_low, m_high, S0, result>>
  /\ UNCHANGED ctwVars

\* ------------------------------------------------------ specifications
IdleCTW ==
  /\ m_cm = [a \in 1..MaxAdaptors |-> NoAdaptor]
  /\ heap = [i \in 1..MaxAllocs |-> "unallocated"]
  /\ allocs = 0
  /\ copyOf = [a \in 1..MaxAdaptors |-> 0]
  /\ fault = FALSE

Init ==
  /\ method \in Methods
  /\ central \in Estimators
  /\ m_nmin \in IF method = "minmax" THEN 0..MaxReject ELSE {0}
  /\ m_nmax \in IF method = "minmax" THEN 0..MaxReject ELSE {0}
  /\ m_low \in IF method = "sigmaclip" THEN LowSigmas ELSE {1}
  /\ m_high \in IF method = "sigmaclip" THEN HighSigmas ELSE {1}
  /\ S0 = << >>
  /\ samples = << >>
  /\ pc = "idle"
  /\ ned = 0
  /\ c_size = 0
  /\ delta = 0
  /\ c_est = [cn |-> 0, vn |-> 0, d |-> 1]
  /\ result = [first |-> 0, second |-> 0]
  /\ results = << >>
  /\ passes = 0
  /\ estArg = << >>
  /\ keptBefore = << >>
  /\ IdleCTW

CallNone == \E s \in SeqsUpTo(MaxLen) : NoneCombine(s)

CallMinMax == \E s \in SeqsUpTo(MaxLen) : MinMaxCombine(s)

CallSigmaClip == \E s \in SeqsUpTo(MaxLen) : SigmaClipEnter(s)

Next ==
  \/ CallNone
  \/ CallMinMax
  \/ CallSigmaClip
  \/ SigmaClipPass

Spec == Init /\ [][Next]_vars

\* ----------------------------------------------------------------- CTW
\* CTW(std::auto_ptr<CombineMethod> cm) : m_cm(cm): the adaptor takes over
\* the instance the argument owns (a newly allocated estimator).
CTWConstruct(a, kind) ==
  /\ pc = "idle"
  /\ m_cm[a] = NoAdaptor
  /\ allocs < MaxAllocs
  /\ heap' = [heap EXCEPT ![allocs + 1] = kind]
  /\ allocs' = allocs + 1
  /\ m_cm' = [m_cm EXCEPT ![a] = allocs + 1]
  /\ copyOf' = [copyOf EXCEPT ![a] = 0]
  /\ UNCHANGED fault
  /\ UNCHANGED combineVars

\* CombineMethod::clone (method_base.h): a new instance of the same
\* dynamic type as the one it is called on.
clone(h, n, p) == [heap |-> [h EXCEPT ![n + 1] = h[p]], ptr |-> n + 1]

\* Variant: the member-wise copy of an auto_ptr, which hands the source's
\* instance over to the copy and leaves the source null.
CTWCopy_Transfer(a, b) ==
  /\ pc = "idle"
  /\ a # b
  /\ m_cm[a] # NoAdaptor
  /\ m_cm[b] = NoAdaptor
  /\ m_cm' = [m_cm EXCEPT ![b] = m_cm[a], ![a] = Null]
  /\ copyOf' = [copyOf EXCEPT ![b] = a]
  /\ UNCHANGED <<heap, allocs, fault>>
  /\ UNCHANGED combineVars

\* CTW(const CTW& a) { m_cm.reset(a.m_cm->clone()); } constructing b from a
CTWCopy(a, b) ==
  /\ pc = "idle"
  /\ a # b
  /\ m_cm[a] # NoAdaptor
  /\ m_cm[b] = NoAdaptor
  /\ allocs < MaxAllocs
  /\ IF m_cm[a] = Null \/ heap[m_cm[a]] \notin Estimators
     THEN /\ fault' = TRUE
          /\ UNCHANGED <<m_cm, heap, allocs, copyOf>>
     ELSE LET c == clone(heap, allocs, m_cm[a])
          IN /\ heap' = c.heap
             /\ allocs' = allocs + 1
             /\ m_cm' = [m_cm EXCEPT ![b] = c.ptr]
             /\ copyOf' = [copyOf EXCEPT ![b] = a]
             /\ UNCHANGED fault
  /\ UNCHANGED combineVars

\* ~CTW(): the auto_ptr member deletes the instance it owns
CTWDestroy(a) ==
  /\ pc = "idle"
  /\ m_cm[a] # NoAdaptor
  /\ IF m_cm[a] = Null
     THEN UNCHANGED <<heap, fault>>
     ELSE IF heap[m_cm[a]] \in Estimators
          THEN heap' = [heap EXCEPT ![m_cm[a]] = "deleted"] /\ UNCHANGED fault
          ELSE fault' = TRUE /\ UNCHANGED heap
  /\ m_cm' = [m_cm EXCEPT ![a] = NoAdaptor]
  /\ copyOf' = [b \in 1..MaxAdaptors |->
                  IF b = a \/ copyOf[b] = a THEN 0 ELSE copyOf[b]]
  /\ UNCHANGED allocs
  /\ UNCHANGED combineVars

InitCTW ==
  /\ method = "none"
  /\ central = "mean"
  /\ m_nmin = 0
  /\ m_nmax = 0
  /\ m_low = 1
  /\ m_high = 1
  /\ S0 = << >>
  /\ samples = << >>
  /\ pc = "idle"
  /\ ned = 0
  /\ c_size = 0
  /\ delta = 0
  /\ c_est = [cn |-> 0, vn |-> 0, d |-> 1]
  /\ result = [first |-> 0, second |-> 0]
  /\ results = << >>
  /\ passes = 0
  /\ estArg = << >>
  /\ keptBefore = << >>
  /\ IdleCTW

ConstructAdaptor == \E a \in 1..MaxAdaptors : \E kind \in Estimators :
                      CTWConstruct(a, kind)

CopyAdaptor == \E a \in 1..MaxAdaptors : \E b \in 1..MaxAdaptors :
                 CTWCopy(a, b)

DestroyAdaptor == \E a \in 1..MaxAdaptors : CTWDestroy(a)

NextCTW ==
  \/ ConstructAdaptor
  \/ CopyAdaptor
  \/ DestroyAdaptor

SpecCTW == InitCTW /\ [][NextCTW]_vars

\* -------------------------------------------------------------- claims
\* The band of the documentation: low < v < high with
\* low = mean - lowSigma*sigma and high = mean + highSigma*sigma.
StrictlyInside(x, r, low, high) ==
  /\ SignedSquare(-low) * r.vn < SignedSquare(r.d * x.v - r.cn)
  /\ SignedSquare(r.d * x.v - r.cn) < SignedSquare(high) * r.vn

\* The values of s in ascending order.
SortedValues(s) ==
  CHOOSE t \in [1..Len(s) -> Values] :
    /\ SeqBag(t) = SeqBag(ValuesOf(s))
    /\ \A i \in 1..Len(s) : \A j \in i..Len(s) : t[i] <= t[j]

\* C1: RejectSigmaClip.combine terminates within |S| passes of its loop;
\* all the more, a call that has made |S| + 1 passes is over.
C1_TerminatesWithinSizePasses ==
  (method = "sigmaclip" /\ passes >= Len(S0) + 1) => pc = "done"

\* C2: after each pass the kept range [beg, ned) holds exactly the samples
\* of the partitioned range whose value lies strictly between
\* low = mean - lowSigma*sigma and high = mean + highSigma*sigma of that
\* pass's estimate; everything else of the range, a value equal to a bound
\* included, is behind ned.
C2_KeptIsStrictBand ==
  (method = "sigmaclip" /\ passes >= 1) =>
    /\ \A i \in 1..ned : StrictlyInside(samples[i], c_est, m_low, m_high)
    /\ \A i \in (ned + 1)..Len(keptBefore) :
         ~StrictlyInside(samples[i], c_est, m_low, m_high)

\* C3: when RejectSigmaClip.combine has terminated, the outputs are the
\* centre and the square root of the variance of the last estimate made,
\* and the number of samples in the final kept range; that count is at
\* most |S| and equals |S| only when every sample is still kept.
C3_SigmaClipOutputs ==
  (method = "sigmaclip" /\ pc = "done") =>
    /\ c_est = Estimate(central, estArg)
    /\ results = <<<<c_est.cn, c_est.d>>,
                   <<"sqrt", <<c_est.vn, c_est.d * c_est.d>>>>, ned>>
    /\ results[3] <= Len(S0)
    /\ (results[3] = Len(S0) => SeqBag(SubSeq(samples, 1, ned)) = SeqBag(S0))

C3_Witness ==
  /\ method = "sigmaclip"
  /\ pc = "done"
  /\ Len(S0) >= 2
  /\ results[3] = Len(S0)

\* C4: when RejectSigmaClip.combine has terminated, every sample of the
\* final kept range lies strictly inside the band of the estimate of that
\* kept range, and one more pass over the kept range keeps all of it.
C4_ResultIsFixedPoint ==
  (method = "sigmaclip" /\ pc = "done") =>
    LET kept == SubSeq(samples, 1, ned)
        r    == Estimate(central, kept)
    IN /\ \A i \in 1..ned : StrictlyInside(kept[i], r, m_low, m_high)
       /\ partition(kept, 1, ned + 1, r, m_low, m_high).mid - 1 = ned

\* C5: with nmin + nmax < |S|, RejectMinMax.combine reports
\* |S| - nmin - nmax and hands the estimator the values of S without its
\* nmin smallest and nmax largest, whatever the order S came in.
C5_MinMaxKeepsMiddle ==
  (method = "minmax" /\ pc = "done" /\ m_nmin + m_nmax < Len(S0)) =>
    /\ results[3] = Len(S0) - m_nmin - m_nmax
    /\ Len(estArg) = results[3]
    /\ SeqBag(ValuesOf(estArg)) =
         SeqBag(SubSeq(SortedValues(S0), m_nmin + 1, Len(S0) - m_nmax))

C5_Witness ==
  /\ method = "minmax"
  /\ pc = "done"
  /\ m_nmin = 1
  /\ m_nmax = 1
  /\ Len(S0) = 3
  /\ S0[1].v > S0[2].v
  /\ S0[3].v > S0[1].v
  /\ results[3] = 1

\* C6: with nmin + nmax >= |S|, RejectMinMax.combine hands the estimator
\* an empty range whose two ends lie inside [begin, end] and reports 0.
C6_MinMaxExhausts ==
  (method = "minmax" /\ pc = "done" /\ m_nmin + m_nmax >= Len(S0)) =>
    /\ estArg = << >>
    /\ results[3] = 0
    /\ 0 <= result.first
    /\ result.first <= result.second
    /\ result.second <= Len(S0)

C6_Witness ==
  /\ method = "minmax"
  /\ pc = "done"
  /\ m_nmin + m_nmax > Len(S0)
  /\ Len(S0) >= 1
  /\ results[3] = 0

C8_NoneForwards ==
  (method = "none" /\ pc = "done") =>
    /\ estArg = S0
    /\ results = <<Center(Estimate(central, S0)),
                   Variance(Estimate(central, S0)), Len(S0)>>

C8_Witness ==
  /\ method = "none"
  /\ pc = "done"
  /\ S0 = << >>
  /\ results[3] = 0

C10_EstimateOnSurvivors ==
  (method = "sigmaclip" /\ passes >= 2) =>
    /\ estArg = keptBefore
    /\ ned <= Len(keptBefore)

====
